---- MODULE Spec2Model ----
(***************************************************************************)
(* Model of the chat route of the Smart Dairy AI assistant                 *)
(* (src/unnamed/part_004): the POST handler, query classification, keyword *)
(* retrieval over document chunks, the web search cache, the tabular path  *)
(* and the strategy dispatch.                                              *)
(*                                                                         *)
(* Strings are sequences of one-character strings, so that toLowerCase,    *)
(* trim, split and includes are computed as the code computes them.        *)
(***************************************************************************)
EXTENDS Integers, Sequences, FiniteSets, TLC

\* ------------------------------------------------------------------ bounds
MaxCalls == 3
MaxTicks == 2
MaxChunks == 6
MaxQueryLen == 3
MaxTextLen == 4
MaxChunkSize == 3
MaxIters == 5
MaxSessions == 1
MaxHours == 1

\* ------------------------------------------------------- program constants
Window == 3600000
NumResults == 5
TopK == 5
TakeLimit == 20
TitleLen == 50
MsPerSecond == 1000
ChunkSize0 == 1000
Overlap0 == 200
MinChunkLen == 50

\* ------------------------------------------------------------------ strings
Lower(c) ==
  CASE c = "A" -> "a"
    [] c = "B" -> "b"
    [] c = "R" -> "r"
    [] c = "G" -> "g"
    [] c = "W" -> "w"
    [] c = "S" -> "s"
    [] OTHER -> c

ToLowerCase(s) == [i \in DOMAIN s |-> Lower(s[i])]

IsSpace(c) == c \in {" ", "\n", "\t"}

\* String.prototype.trim
Trim(s) ==
  LET keep == {i \in DOMAIN s : ~IsSpace(s[i])}
      lo == CHOOSE i \in keep : \A j \in keep : i <= j
      hi == CHOOSE i \in keep : \A j \in keep : j <= i
  IN  IF keep = {} THEN <<>> ELSE SubSeq(s, lo, hi)

\* String.prototype.split(/\s+/): the pieces between maximal whitespace runs;
\* a leading or trailing run leaves an empty piece, "" splits to [""].
RECURSIVE SplitFrom(_, _, _, _, _)
SplitFrom(s, i, cur, acc, inRun) ==
  IF i > Len(s) THEN Append(acc, cur)
  ELSE IF IsSpace(s[i])
       THEN IF inRun THEN SplitFrom(s, i + 1, cur, acc, TRUE)
                     ELSE SplitFrom(s, i + 1, <<>>, Append(acc, cur), TRUE)
       ELSE SplitFrom(s, i + 1, Append(cur, s[i]), acc, FALSE)

SplitWs(s) == SplitFrom(s, 1, <<>>, <<>>, FALSE)

\* String.prototype.includes: the empty string is included in every string
Includes(content, keyword) ==
  \E i \in 1..(Len(content) - Len(keyword) + 1) :
     SubSeq(content, i, i + Len(keyword) - 1) = keyword

Min(a, b) == IF a <= b THEN a ELSE b

\* Array.prototype.slice(0, n)
Slice(s, n) == SubSeq(s, 1, Min(n, Len(s)))

\* ---------------------------------------------------------------- retrieval
QueryKeywords(query) == SplitWs(ToLowerCase(query))

\* queryKeywords.reduce(...): one point per keyword position found in content
ScoreOf(text, keywords) ==
  LET content == ToLowerCase(text)
  IN  Cardinality({k \in DOMAIN keywords : Includes(content, keywords[k])})

ScoredChunks(chunks, query) ==
  LET queryKeywords == QueryKeywords(query)
  IN  [i \in DOMAIN chunks |->
         [chunk |-> chunks[i], score |-> ScoreOf(chunks[i].content, queryKeywords)]]

\* Array.prototype.sort((a, b) => b.score - a.score): stable, descending
\* a sort that puts a later chunk before the earlier ones of the same score
InsertBeforeEqual(x, sorted) ==
  LET before == SelectSeq(sorted, LAMBDA y : y.score > x.score)
      after == SelectSeq(sorted, LAMBDA y : y.score <= x.score)
  IN  before \o <<x>> \o after

RECURSIVE InsertDesc(_, _)
InsertDesc(x, sorted) ==
  IF sorted = <<>> THEN <<x>>
  ELSE IF Head(sorted).score >= x.score
       THEN <<Head(sorted)>> \o InsertDesc(x, Tail(sorted))
       ELSE <<x>> \o sorted

RECURSIVE SortDesc(_)
SortDesc(s) ==
  IF s = <<>> THEN <<>>
  ELSE InsertDesc(s[Len(s)], SortDesc(SubSeq(s, 1, Len(s) - 1)))

PositiveScore(c) == c.score > 0

RelevantChunks(chunks, query) ==
  Slice(SortDesc(SelectSeq(ScoredChunks(chunks, query), PositiveScore)), TopK)

DocSources(relevant) ==
  [i \in DOMAIN relevant |->
     [fileName |-> relevant[i].chunk.fileName, type |-> "Document",
      chunkIndex |-> relevant[i].chunk.chunkIndex]]

RagContext(relevant) == [i \in DOMAIN relevant |-> relevant[i].chunk.content]

\* -------------------------------------------------------------- classifier
L_csv_analysis == <<"c","s","v","_","a","n","a","l","y","s","i","s">>
L_rag == <<"r","a","g">>
L_web_search == <<"w","e","b","_","s","e","a","r","c","h">>
L_hybrid == <<"h","y","b","r","i","d">>
L_general == <<"g","e","n","e","r","a","l">>

Labels == {L_csv_analysis, L_rag, L_web_search, L_hybrid, L_general}

\* What zai.chat.completions.create can do for the routing prompt:
\*   throw      - the call rejects
\*   nochoices  - the response has no choices array (choices[0] throws a TypeError)
\*   empty      - choices is []            nocontent - message.content is null
\*   text       - message.content is the given string
ClassifierTexts ==
  { L_csv_analysis, L_rag, L_web_search, L_hybrid, L_general,
    <<" ","R","A","G","\n">>,
    <<>>, <<" ">>,
    <<"r","a","g",".">>,
    <<"W","e","b"," ","S","e","a","r","c","h">> }

ClassifierOutcomes ==
  { [kind |-> k, content |-> <<>>] : k \in {"throw", "nochoices", "empty", "nocontent"} }
  \cup { [kind |-> "text", content |-> t] : t \in ClassifierTexts }

\* analyzeQueryType, lines 216-229: the value of the returned object's type field
AnalyzeQueryType(outcome) ==
  IF outcome.kind \in {"throw", "nochoices"} THEN L_general
  ELSE IF outcome.kind \in {"empty", "nocontent"} THEN L_general
  ELSE LET result == ToLowerCase(Trim(outcome.content))
       IN  IF result = <<>> THEN L_general ELSE result

\* a switch whose default branch is the document path
DispatchNoDefault(type) ==
  IF type \in {L_csv_analysis, L_web_search, L_hybrid} THEN type ELSE L_rag

\* processQuery's switch, lines 150-187: the branch taken and the label reported
Dispatch(type) ==
  IF type \in {L_csv_analysis, L_rag, L_web_search, L_hybrid} THEN type ELSE L_general

\* ------------------------------------------------------------- completions
CompletionOutcomes == {"throw", "nocontent", "text"}

\* the text a completion generates for a prompt
Gen(prompt) == [kind |-> "generated", detail |-> prompt]
Fixed(name) == [kind |-> name, detail |-> <<>>]
Failure(name, message) == [kind |-> name, detail |-> <<message>>]

\* ----------------------------------------------------------- persistence
\* db.documentChunk rows with their document's fileName (include: document):
\* a document of two chunks, and one with a chunk more than findMany takes,
\* whose last chunk alone holds "b"
ShortDoc ==
  << [documentId |-> "d1", chunkIndex |-> 0, content |-> <<"a">>, fileName |-> "manual.pdf"],
     [documentId |-> "d1", chunkIndex |-> 1, content |-> <<"c","a">>, fileName |-> "manual.pdf"] >>

LongDoc ==
  [i \in 1..(TakeLimit + 1) |->
     [documentId |-> "d2", chunkIndex |-> i - 1,
      content |-> IF i > TakeLimit THEN <<"b">> ELSE <<"c">>,
      fileName |-> "paper.pdf"]]

ChunkTable == ShortDoc \o LongDoc

\* findMany({ where: { documentId: { in: documentIds } }, take: 20 })
FindManyChunks(table, documentIds) ==
  LET Wanted(row) == \E i \in DOMAIN documentIds : documentIds[i] = row.documentId
  IN  Slice(SelectSeq(table, Wanted), TakeLimit)

\* JSON.stringify / JSON.parse of a list of plain result objects
JSONstringify(list) == [json |-> list]
JSONparse(text) == text.json

\* findUnique({ where: { query } }): <<>> for null, else <<row>>
FindUnique(table, query) ==
  LET Match(row) == row.query = query
  IN  Slice(SelectSeq(table, Match), 1)

\* an update that leaves the counter as it was
IncrementHitLost(table, query) == table

\* an update that also moves the entry's timestamp
IncrementHitAndTouch(table, query) ==
  [i \in DOMAIN table |->
     IF table[i].query = query
     THEN [table[i] EXCEPT !.hitCount = @ + 1, !.searchedAt = @ + 1,
                           !.resultsAt = @ + 1]
     ELSE table[i]]

\* update({ where: { query }, data: { hitCount: { increment: 1 } } })
IncrementHit(table, query) ==
  [i \in DOMAIN table |->
     IF table[i].query = query
     THEN [table[i] EXCEPT !.hitCount = @ + 1]
     ELSE table[i]]

\* update({ where: { query }, data: { results, searchedAt, hitCount: 1 } })
\* (resultsAt is not a column: it records the searchedAt that was written
\* together with the results, for the properties to read)
UpdatePartial(table, query, results, at) ==
  [i \in DOMAIN table |->
     IF table[i].query = query
     THEN [table[i] EXCEPT !.results = JSONstringify(results), !.resultsAt = at,
                           !.hitCount = 1]
     ELSE table[i]]

UpdateRefresh(table, query, results, at) ==
  [i \in DOMAIN table |->
     IF table[i].query = query
     THEN [table[i] EXCEPT !.results = JSONstringify(results), !.resultsAt = at,
                           !.searchedAt = at, !.hitCount = 1]
     ELSE table[i]]

\* the column defaults of a created row: searchedAt now(), hitCount 1
DefaultHitCount == 1

\* create({ data: { query, results } }) is rejected when a row with this
\* query exists (query is the unique key findUnique and update select by)
CreateAlways(table, query) == TRUE

CreateAllowed(table, query) == FindUnique(table, query) = <<>>

CreateRow(table, query, results, now) ==
  Append(table, [query |-> query, results |-> JSONstringify(results),
                 searchedAt |-> now, hitCount |-> DefaultHitCount,
                 resultsAt |-> now])

\* db.farmDataFile rows
FarmFiles ==
  << [id |-> "f1", fileName |-> "herd.csv", uploadedAt |-> 1],
     [id |-> "f2", fileName |-> "milk.csv", uploadedAt |-> 2] >>

\* findFirst({ where: { id: { in: csvFileIds } }, orderBy: { uploadedAt: 'desc' } })
\* the first of the named files in the order the request names them
FindFirstListed(table, csvFileIds) ==
  LET Named(id) == \E j \in DOMAIN table : table[j].id = id
      ids == SelectSeq(csvFileIds, Named)
      Row(id) == table[CHOOSE j \in DOMAIN table : table[j].id = id]
  IN  IF ids = <<>> THEN <<>> ELSE <<Row(ids[1])>>

FindFirstFile(table, csvFileIds) ==
  LET Wanted(row) == \E i \in DOMAIN csvFileIds : csvFileIds[i] = row.id
      rows == SelectSeq(table, Wanted)
      best == CHOOSE i \in DOMAIN rows : \A j \in DOMAIN rows :
                 rows[i].uploadedAt > rows[j].uploadedAt
                 \/ (rows[i].uploadedAt = rows[j].uploadedAt /\ i <= j)
  IN  IF rows = <<>> THEN <<>> ELSE <<rows[best]>>

\* ------------------------------------------------------------- web search
Item1 == [name |-> "n1", url |-> "u1", snippet |-> "s1"]
Item2 == [name |-> "n2", url |-> "u2", snippet |-> "s2"]

\* zai.functions.invoke('web_search', ...): throws, or resolves to null or a list
SearchOutcomes ==
  { [kind |-> "throw", list |-> <<>>], [kind |-> "null", list |-> <<>>] }
  \cup { [kind |-> "list", list |-> l] : l \in {<<>>, <<Item1, Item2>>} }

DairyPrefix == <<"d","a","i","r","y"," ","f","a","r","m","i","n","g"," ">>

SearchArgs(query) == [query |-> DairyPrefix \o query, num |-> NumResults]

WebContext(results) ==
  [i \in DOMAIN results |-> <<results[i].name, results[i].snippet>>]

WebSources(results) ==
  [i \in DOMAIN results |->
     [title |-> results[i].name, url |-> results[i].url, type |-> "Web Search"]]

\* a catch that answers with the results it had
WebCatchWithSources(message) ==
  [response |-> Failure("web_error", message), sources |-> WebSources(<<Item1>>)]

\* lines 484-490: the catch of processWebSearch, with the error's message
WebCatch(message) == [response |-> Failure("web_error", message), sources |-> <<>>]

\* line 448: searchResults.length === 0
NoResults(searchResults) == Len(searchResults) = 0

\* ------------------------------------------------------------------- state
VARIABLES
  clock,      \* Date.now(), in milliseconds since the first request
  ticks,      \* how many times the clock has advanced
  cache,      \* the rows of db.webSearchCache, in insertion order
  proc,       \* per request: its position in processQuery and its locals
  calls,      \* how many lookups have been started on their own
  rQuery,     \* retrieval on its own: the query
  rChunks,    \*   the fetched chunks
  rOut,       \*   <<>> or <<[relevant, sources]>> once retrieval has run
  store,      \* the chatMessage, queryLog and chatSession rows
  chunker     \* a call of createTextChunks: its arguments and locals

vars == <<clock, ticks, cache, proc, calls, rQuery, rChunks, rOut, store, chunker>>

\* two requests are in flight at a time
Procs == {1, 2}

Queries == { <<"a">>, <<"b">> }
DocIdLists == { <<>>, <<"d1">>, <<"d2">> }
CsvIdLists == { <<>>, <<"f1", "f2">>, <<"f2", "f1">>, <<"x">> }
Messages == Queries \cup { <<>> }
SessionIds == { "", "s1" }
\* the documents and csvFiles of a body: each list with the other one empty,
\* and both lists non-empty
Resources ==
  { <<d, <<>>, {}>> : d \in DocIdLists } \cup { <<<<>>, c, {}>> : c \in CsvIdLists }
  \cup { <<<<"d1">>, <<"f1", "f2">>, {}>> }

\* a body may lack the documents or the csvFiles array (undefined)
Bodies ==
  Resources \cup { <<<<>>, <<"f1", "f2">>, {"documents"}>>,
                   <<<<"d1">>, <<>>, {"csvFiles"}>> }

\* the messages sent with the bodies: "a" with each of them, "b" with the
\* long document, and a body without a message
ChatRequests ==
  { <<m, b>> \in Messages \X Bodies :
      \/ m = <<"a">>
      \/ m = <<"b">> /\ b = <<<<"d2">>, <<>>, {}>>
      \/ m = <<>> /\ b = <<<<>>, <<>>, {}>> }

IdleProc ==
  [ pc |-> "idle", query |-> <<>>, documentIds |-> <<>>, csvFileIds |-> <<>>,
    stack |-> <<>>,          \* the callers awaiting the running function
    type |-> <<>>,           \* queryAnalysis.type
    outcome |-> <<>>,        \* what the routing completion did (history)
    cached |-> <<>>,         \* processWebSearch: cached (<<>> is null)
    searchResults |-> <<>>,  \* processWebSearch: searchResults
    stamp |-> 0,             \* the new Date() of the update's data
    relevant |-> <<>>,       \* processRAGQuery: relevantChunks
    ragResult |-> <<>>,      \* processHybridQuery: ragResult
    webResult |-> <<>>,      \* processHybridQuery: webResult
    csvFile |-> <<>>,        \* processCSVQuery: farmDataFile
    result |-> <<>>,         \* the response the route sent
    sessionId |-> "",        \* POST: sessionId
    missing |-> {},          \* POST: the arrays the body lacks (undefined)
    startTime |-> 0,         \* POST: startTime
    elapsed |-> 0,           \* POST: Date.now() - startTime of line 92
    touchAt |-> 0,           \* POST: the new Date() of line 111
    pq |-> <<>>,             \* POST: result, what processQuery returned
    analysis |-> <<>>,       \* processCSVQuery: analysisResult
    \* history of the request, read by the properties only
    lookups |-> 0,           \* calls of processWebSearch so far
    nsearch |-> 0,           \* external searches made by the running lookup
    searchArgs |-> <<>>,     \* arguments of the running lookup's search
    fresh |-> "none",        \* the running lookup's freshness decision
    webRet |-> <<>>,         \* value returned by the last lookup
    ragFell |-> "none",      \* why processRAGQuery fell back to the web
    ragWebRet |-> <<>>,      \* value the fallback lookup returned
    ragRet |-> <<>>,         \* value processRAGQuery returned
    trace |-> <<>>,          \* the route's steps, in the order they happened
    classified |-> 0,        \* calls of analyzeQueryType so far
    retrievals |-> 0,        \* calls of processRAGQuery so far
    dispatches |-> 0,        \* calls of processCSVQuery so far
    synth |-> "none",        \* what the hybrid synthesis completion did
    exec |-> "none",         \* what the python process did
    csvFound |-> "none",     \* what processCSVQuery's findFirst did
    csvCalls |-> 0,          \* executor and completion calls of processCSVQuery
    completions |-> 0,       \* calls of zai.chat.completions.create so far
    chats |-> 0 ]            \* calls of directChat so far

\* no call of createTextChunks is running
NoChunker ==
  [pc |-> "idle", text |-> <<>>, chunkSize |-> 0, overlap |-> 0,
   start |-> 0, chunks |-> <<>>, iters |-> 0, result |-> <<>>]

\* the ids db.chatSession.create gives its rows, in the order of creation
SessionNames == <<"s1", "s2", "s3">>

\* lines 7-11: the row chatSession.create({ data: { title } }) stores; the
\* code gives it no updatedAt (<<>>: whatever the column defaults to)
NewTitle == <<"New Conversation">>

NewSession(id) == [id |-> id, title |-> NewTitle, updatedAt |-> <<>>]

Alone == rQuery = <<>> /\ rChunks = <<>> /\ rOut = <<>>

Init ==
  /\ clock = 0
  /\ ticks = 0
  /\ cache = <<>>
  /\ proc = [p \in Procs |-> IdleProc]
  /\ calls = 0
  /\ Alone
  /\ store = [messages |-> <<>>, logs |-> <<>>, sessions |-> <<>>]
  /\ chunker = NoChunker

\* ----------------------------------------------------------- control flow
\* line 189: processQuery returns { response, sources, queryType } to line 82,
\* and the route builds the data of the assistant turn (lines 86-93), which
\* reads the clock at line 92
Finish(s, v, label) ==
  [s EXCEPT !.pc = "post_assistant", !.stack = <<>>,
            !.trace = Append(@, "returned"),
            !.elapsed = clock - s.startTime,
            !.pq = <<[response |-> v.response, sources |-> v.sources,
                      queryType |-> label]>>]

\* a rejection that reaches the route is retried, the request stays where it is
OnRejectRetry(s, cause) == [s EXCEPT !.trace = Append(@, "failed")]

\* lines 122-128: the route's catch answers 500 with the error's message
OnReject(s, cause) ==
  [s EXCEPT !.pc = "done", !.stack = <<>>, !.trace = Append(@, "failed"),
            !.result = <<[status |-> 500, error |-> "Failed to process message",
                          details |-> cause]>>]

\* a call of processWebSearch(zai, query) whose value goes to `frame`
StartLookup(s, frame) ==
  [s EXCEPT !.pc = "ws_find", !.stack = <<frame>> \o @,
            !.cached = <<>>, !.searchResults = <<>>, !.stamp = 0,
            !.lookups = @ + 1, !.nsearch = 0, !.searchArgs = <<>>,
            !.fresh = "none"]

\* processRAGQuery returns v: to processQuery (line 161) or to
\* processHybridQuery (line 501), which goes on to line 502
RagReturn(s, v) ==
  LET s1 == [s EXCEPT !.stack = Tail(@), !.ragRet = <<v>>]
  IN  IF Head(s.stack) = "pq_rag"
      THEN Finish(s1, v, L_rag)
      ELSE StartLookup([s1 EXCEPT !.ragResult = <<v>>], "hyb_web")

\* `return await processWebSearch(zai, query)`, lines 341, 361, 395
RagTailEmpty(v) == [response |-> Fixed("rag_no_response"), sources |-> <<>>]

RagTail(v) == v

\* processWebSearch returns v to the caller on top of the stack
WebReturn(s, v) ==
  LET f == Head(s.stack)
      s1 == [s EXCEPT !.stack = Tail(@), !.webRet = <<v>>,
                      !.cached = <<>>, !.searchResults = <<>>, !.stamp = 0,
                      !.nsearch = 0, !.searchArgs = <<>>, !.fresh = "none"]
  IN  CASE f = "top" -> [s1 EXCEPT !.pc = "done"]
        [] f = "pq_web" -> Finish(s1, v, L_web_search)
        [] f = "rag_tail" -> RagReturn([s1 EXCEPT !.ragWebRet = <<v>>], RagTail(v))
        [] f = "hyb_web" -> [s1 EXCEPT !.webResult = <<v>>, !.pc = "hyb_complete"]
        [] f = "hyb_catch" -> Finish(s1, v, L_hybrid)

Step(p, s) == proc' = [proc EXCEPT ![p] = s]

\* ------------------------------------------------------------ POST /api/chat
\* a write of the route resolves (TRUE) or rejects (FALSE)
WriteOutcomes == BOOLEAN

AddMessage(st, row) == [st EXCEPT !.messages = Append(@, row)]
AddLog(st, row) == [st EXCEPT !.logs = Append(@, row)]

\* message.slice(0, 50) + (message.length > 50 ? '...' : '')
Title(message) ==
  Slice(message, TitleLen) \o (IF Len(message) > TitleLen THEN <<".", ".", ".">> ELSE <<>>)

\* chatSession.update finds a row to update, or rejects (record not found)
HasSession(st, id) == \E i \in DOMAIN st.sessions : st.sessions[i].id = id

\* chatSession.update({ where: { id }, data: { updatedAt, title } })
TouchSession(st, id, at, title) ==
  [st EXCEPT !.sessions =
     [i \in DOMAIN @ |-> IF @[i].id = id
                         THEN [@[i] EXCEPT !.updatedAt = <<at>>, !.title = title]
                         ELSE @[i]]]

\* lines 5-24, POST /api/chat/session: a session row is created, or the
\* create rejects and the handler answers 500 with nothing written
CreateSession ==
  /\ Len(store.sessions) < MaxSessions
  /\ \E ok \in WriteOutcomes :
       store' = IF ok
                THEN [store EXCEPT !.sessions =
                        Append(@, NewSession(SessionNames[Len(@) + 1]))]
                ELSE store
  /\ UNCHANGED <<clock, ticks, cache, proc, calls, rQuery, rChunks, rOut, chunker>>

\* lines 58-62: the handler reads the clock and starts reading the body
Receive(p) ==
  /\ proc[p].pc = "idle"
  /\ Step(p, [proc[p] EXCEPT !.pc = "post_body", !.startTime = clock])
  /\ UNCHANGED <<clock, ticks, cache, calls, rQuery, rChunks, rOut, store, chunker>>

\* lines 62-70: the body has been read, or is not JSON (the catch of lines
\* 122-128 answers 500); a missing message or sessionId answers 400
Post(p) ==
  /\ proc[p].pc = "post_body"
  /\ \/ Step(p, OnReject(proc[p], "json"))
     \/ \E rq \in ChatRequests, sid \in SessionIds :
          LET m == rq[1]
              b == rq[2]
              s == [proc[p] EXCEPT !.query = m, !.sessionId = sid, !.missing = b[3],
                                   !.documentIds = b[1], !.csvFileIds = b[2]]
          IN  IF m = <<>> \/ sid = ""
              THEN Step(p, [s EXCEPT !.pc = "done",
                              !.result = <<[status |-> 400,
                                            error |-> "Message and sessionId are required",
                                            details |-> "none"]>>])
              ELSE Step(p, [s EXCEPT !.pc = "post_user"])
  /\ UNCHANGED <<clock, ticks, cache, calls, rQuery, rChunks, rOut, store, chunker>>

\* lines 72-79: the user turn is saved, or the create rejects (the store
\* fails, or the schema ties sessionId to a session row that does not exist)
SaveUser(p) ==
  /\ proc[p].pc = "post_user"
  /\ \E ok \in WriteOutcomes :
       LET s == proc[p]
           row == [sessionId |-> s.sessionId, role |-> "user", content |-> s.query]
       IN  IF ok
           THEN /\ store' = AddMessage(store, row)
                /\ Step(p, [s EXCEPT !.pc = "pq_start", !.trace = Append(@, "user")])
           ELSE /\ store' = store
                /\ Step(p, OnReject(s, "persistence"))
  /\ UNCHANGED <<clock, ticks, cache, calls, rQuery, rChunks, rOut, chunker>>

\* the locals of processQuery and of the paths it called are gone once the
\* route goes on with its result
Returned(s) ==
  [s EXCEPT !.cached = <<>>, !.relevant = <<>>, !.ragResult = <<>>,
            !.webResult = <<>>, !.csvFile = <<>>, !.analysis = <<>>,
            !.webRet = <<>>, !.ragWebRet = <<>>, !.ragRet = <<>>]

\* lines 84-94: the create of the assistant turn resolves or rejects
SaveAssistant(p) ==
  /\ proc[p].pc = "post_assistant"
  /\ \E ok \in WriteOutcomes :
       LET s == Returned(proc[p])
           r == s.pq[1]
           row == [sessionId |-> s.sessionId, role |-> "assistant",
                   content |-> r.response, sources |-> JSONstringify(r.sources),
                   queryType |-> r.queryType,
                   responseTime |-> [ms |-> s.elapsed, per |-> MsPerSecond]]
       IN  IF ok
           THEN /\ store' = AddMessage(store, row)
                /\ Step(p, [s EXCEPT !.pc = "post_log", !.trace = Append(@, "assistant")])
           ELSE /\ store' = store
                /\ Step(p, OnReject(s, "persistence"))
  /\ UNCHANGED <<clock, ticks, cache, calls, rQuery, rChunks, rOut, chunker>>

\* line 104
TriggeredWebSearch(queryType) == queryType = L_web_search \/ queryType = L_hybrid

\* lines 96-106: the analytics row is written; the route then builds the
\* data of the session update, which reads the clock at line 111
LogQuery(p) ==
  /\ proc[p].pc = "post_log"
  /\ \E ok \in WriteOutcomes :
       LET s == proc[p]
           r == s.pq[1]
           row == [sessionId |-> s.sessionId, query |-> s.query,
                   queryType |-> r.queryType,
                   documents |-> JSONstringify(s.documentIds),
                   csvFile |-> Slice(s.csvFileIds, 1),
                   triggeredWebSearch |-> TriggeredWebSearch(r.queryType)]
       IN  IF ok
           THEN /\ store' = AddLog(store, row)
                /\ Step(p, [s EXCEPT !.pc = "post_touch", !.trace = Append(@, "log"),
                                !.touchAt = clock])
           ELSE /\ store' = store
                /\ Step(p, OnReject(s, "persistence"))
  /\ UNCHANGED <<clock, ticks, cache, calls, rQuery, rChunks, rOut, chunker>>

\* lines 108-121: the session is touched and the answer is sent; the update
\* rejects when the store itself fails, and also when the store works but
\* holds no session with this id (record not found)
Respond(p) ==
  /\ proc[p].pc = "post_touch"
  /\ \E ok \in WriteOutcomes :
       LET s == proc[p]
           r == s.pq[1]
       IN  IF ~ok
           THEN /\ store' = store
                /\ Step(p, OnReject(s, "persistence"))
           ELSE IF ~HasSession(store, s.sessionId)
           THEN /\ store' = store
                /\ Step(p, OnReject(s, "notfound"))
           ELSE /\ store' = TouchSession(store, s.sessionId, s.touchAt, Title(s.query))
                /\ Step(p, [s EXCEPT !.pc = "done", !.trace = Append(@, "touch"),
                                !.result = <<[status |-> 200, response |-> r.response,
                                              sources |-> r.sources,
                                              queryType |-> r.queryType]>>])
  /\ UNCHANGED <<clock, ticks, cache, calls, rQuery, rChunks, rOut, chunker>>

\* -------------------------------------------------------------- processQuery
\* lines 82 and 141-143: processQuery awaits ZAI.create (line 49), which
\* resolves or rejects; analyzeQueryType then builds its prompt (lines
\* 199-214, outside its try), which throws a TypeError when documentIds or
\* csvFileIds is undefined; either failure reaches the route's catch
Start(p) ==
  /\ proc[p].pc = "pq_start"
  /\ LET s == [proc[p] EXCEPT !.trace = Append(@, "invoked")]
     IN  \/ Step(p, OnReject(s, "client"))
         \/ IF s.missing # {}
            THEN Step(p, OnReject(s, "type"))
            ELSE Step(p, [s EXCEPT !.pc = "pq_analyze"])
  /\ UNCHANGED <<clock, ticks, cache, calls, rQuery, rChunks, rOut, store, chunker>>

\* a call of processRAGQuery whose value goes to `frame`
StartRag(s, frame) ==
  [s EXCEPT !.pc = "rag_find", !.stack = <<frame>> \o @, !.retrievals = @ + 1]

\* analyzeQueryType resolves and the switch of lines 150-187 picks the path
Analyze(p) ==
  /\ proc[p].pc = "pq_analyze"
  /\ \E o \in ClassifierOutcomes :
       LET t == AnalyzeQueryType(o)
           s == [proc[p] EXCEPT !.type = t, !.outcome = <<o>>, !.classified = @ + 1,
                                !.completions = @ + 1]
       IN  Step(p, CASE Dispatch(t) = L_csv_analysis ->
                          [s EXCEPT !.pc = "csv_find", !.dispatches = @ + 1]
                     [] Dispatch(t) = L_rag -> StartRag(s, "pq_rag")
                     [] Dispatch(t) = L_web_search -> StartLookup(s, "pq_web")
                     [] Dispatch(t) = L_hybrid -> StartRag(s, "hyb_rag")
                     [] OTHER -> [s EXCEPT !.pc = "chat"])
  /\ UNCHANGED <<clock, ticks, cache, calls, rQuery, rChunks, rOut, store, chunker>>

\* directChat, lines 536-552: a rejected completion is not caught and fails
\* the request (the route's catch answers 500)
Chat(p) ==
  /\ proc[p].pc = "chat"
  /\ \E o \in CompletionOutcomes :
       LET s == [proc[p] EXCEPT !.completions = @ + 1, !.chats = @ + 1]
           none == [response |-> Fixed("chat_no_response"), sources |-> <<>>]
           text == [response |-> Gen([by |-> "chat", question |-> s.query]),
                    sources |-> <<>>]
       IN  Step(p, CASE o = "throw" -> OnReject(s, "completion")
                     [] o = "nocontent" -> Finish(s, none, L_general)
                     [] OTHER -> Finish(s, text, L_general))
  /\ UNCHANGED <<clock, ticks, cache, calls, rQuery, rChunks, rOut, store, chunker>>

\* ------------------------------------------------------------ processWebSearch
\* line 406: the findUnique resolves
WsFind(p) ==
  /\ proc[p].pc = "ws_find"
  /\ Step(p, [proc[p] EXCEPT !.pc = "ws_check",
                             !.cached = FindUnique(cache, proc[p].query)])
  /\ UNCHANGED <<clock, ticks, cache, calls, rQuery, rChunks, rOut, store, chunker>>

\* line 412: cached && Date.now() - new Date(cached.searchedAt).getTime() < 3600000
IsFresh(cached, now) == cached # <<>> /\ now - cached[1].searchedAt < Window

\* lines 412-414 and 419: the branch is chosen; a fresh entry's list is parsed
WsCheck(p) ==
  /\ proc[p].pc = "ws_check"
  /\ LET s == proc[p]
     IN  IF IsFresh(s.cached, clock)
         THEN Step(p, [s EXCEPT !.pc = "ws_hit", !.fresh = "hit",
                                !.searchResults = JSONparse(s.cached[1].results)])
         ELSE Step(p, [s EXCEPT !.pc = "ws_search", !.fresh = "miss"])
  /\ UNCHANGED <<clock, ticks, cache, calls, rQuery, rChunks, rOut, store, chunker>>

\* lines 415-418: the hit counter's update resolves
WsHit(p) ==
  /\ proc[p].pc = "ws_hit"
  /\ cache' = IncrementHit(cache, proc[p].query)
  /\ Step(p, [proc[p] EXCEPT !.pc = "ws_answer"])
  /\ UNCHANGED <<clock, ticks, calls, rQuery, rChunks, rOut, store, chunker>>

\* lines 421-426: the external search resolves or rejects; lines 484-490
\* turn a rejection into the lookup's answer
WsSearch(p) ==
  /\ proc[p].pc = "ws_search"
  /\ \E o \in SearchOutcomes :
       LET s == [proc[p] EXCEPT !.nsearch = @ + 1,
                                !.searchArgs = <<SearchArgs(proc[p].query)>>]
       IN  IF o.kind = "throw"
           THEN Step(p, WebReturn(s, WebCatch("search")))
           ELSE Step(p, [s EXCEPT !.pc = "ws_write", !.stamp = clock,
                                  !.searchResults = IF o.kind = "null" THEN <<>> ELSE o.list])
  /\ UNCHANGED <<clock, ticks, cache, calls, rQuery, rChunks, rOut, store, chunker>>

\* lines 429-445: the update or the create resolves; a rejected create
\* (the query already has a row) is caught at line 484
WsWrite(p) ==
  /\ proc[p].pc = "ws_write"
  /\ LET s == proc[p]
         failed == WebCatch("unique")
     IN  IF s.cached # <<>>
         THEN /\ cache' = UpdateRefresh(cache, s.query, s.searchResults, s.stamp)
              /\ Step(p, [s EXCEPT !.pc = "ws_answer"])
         ELSE IF CreateAllowed(cache, s.query)
              THEN /\ cache' = CreateRow(cache, s.query, s.searchResults, clock)
                   /\ Step(p, [s EXCEPT !.pc = "ws_answer"])
              ELSE /\ cache' = cache
                   /\ Step(p, WebReturn(s, failed))
  /\ UNCHANGED <<clock, ticks, calls, rQuery, rChunks, rOut, store, chunker>>

\* lines 406, 415, 430, 439 and 484-490: the cache read or write rejects for
\* a reason of the store's own, and the catch turns it into the lookup's answer
WsDbFails(p) ==
  /\ proc[p].pc \in {"ws_find", "ws_hit", "ws_write"}
  /\ Step(p, WebReturn(proc[p], WebCatch("store")))
  /\ UNCHANGED <<clock, ticks, cache, calls, rQuery, rChunks, rOut, store, chunker>>

\* lines 448-483: the empty branch, or the completion over the results
WsAnswer(p) ==
  /\ proc[p].pc = "ws_answer"
  /\ LET s == proc[p]
         prompt == [by |-> "web", context |-> WebContext(s.searchResults),
                    question |-> s.query]
         empty == [response |-> Fixed("web_no_results"), sources |-> <<>>]
         failed == WebCatch("completion")
         called == [s EXCEPT !.completions = @ + 1]
         none == [response |-> Fixed("web_no_response"),
                  sources |-> WebSources(s.searchResults)]
         text == [response |-> Gen(prompt), sources |-> WebSources(s.searchResults)]
     IN  IF NoResults(s.searchResults)
         THEN Step(p, WebReturn(s, empty))
         ELSE \E o \in CompletionOutcomes :
                Step(p, WebReturn(called, CASE o = "throw" -> failed
                                       [] o = "nocontent" -> none
                                       [] OTHER -> text))
  /\ UNCHANGED <<clock, ticks, cache, calls, rQuery, rChunks, rOut, store, chunker>>

\* ------------------------------------------------------------ processRAGQuery
\* a read of the route's paths resolves (TRUE) or rejects (FALSE)
ReadOutcomes == BOOLEAN

\* a catch that lets the error go on to the route
RagRethrow(s) == OnReject(s, "retrieval")

\* lines 393-396: the catch of processRAGQuery calls processWebSearch
RagCatch(s) == StartLookup([s EXCEPT !.ragFell = "error"], "rag_tail")

\* lines 329-362: the chunks arrive, are scored, filtered, sorted and cut,
\* or the findMany rejects
RagFind(p) ==
  /\ proc[p].pc = "rag_find"
  /\ \E ok \in ReadOutcomes :
       LET s == proc[p]
           chunks == FindManyChunks(ChunkTable, s.documentIds)
           relevant == RelevantChunks(chunks, s.query)
       IN  IF ~ok
           THEN Step(p, RagCatch(s))
           ELSE IF chunks = <<>>
           THEN Step(p, StartLookup([s EXCEPT !.ragFell = "empty"], "rag_tail"))
           ELSE IF relevant = <<>>
                THEN Step(p, StartLookup([s EXCEPT !.ragFell = "noscore"], "rag_tail"))
                ELSE Step(p, [s EXCEPT !.pc = "rag_complete", !.relevant = relevant])
  /\ UNCHANGED <<clock, ticks, cache, calls, rQuery, rChunks, rOut, store, chunker>>

\* lines 364-396: the completion over the kept chunks
RagComplete(p) ==
  /\ proc[p].pc = "rag_complete"
  /\ \E o \in CompletionOutcomes :
       LET s == [proc[p] EXCEPT !.completions = @ + 1]
           prompt == [by |-> "rag", context |-> RagContext(s.relevant),
                      question |-> s.query]
           none == [response |-> Fixed("rag_no_response"),
                    sources |-> DocSources(s.relevant)]
           text == [response |-> Gen(prompt), sources |-> DocSources(s.relevant)]
       IN  Step(p, CASE o = "throw" -> RagCatch(s)
                     [] o = "nocontent" -> RagReturn(s, none)
                     [] OTHER -> RagReturn(s, text))
  /\ UNCHANGED <<clock, ticks, cache, calls, rQuery, rChunks, rOut, store, chunker>>

\* --------------------------------------------------------- processHybridQuery
Tagged(sources, priority) ==
  [i \in DOMAIN sources |-> [source |-> sources[i], priority |-> priority]]

\* lines 504-532: the sources are combined and the synthesis resolves
HybComplete(p) ==
  /\ proc[p].pc = "hyb_complete"
  /\ \E o \in CompletionOutcomes :
       LET s == [proc[p] EXCEPT !.synth = o, !.completions = @ + 1]
           rag == s.ragResult[1]
           web == s.webResult[1]
           combined == Tagged(rag.sources, "high") \o Tagged(web.sources, "medium")
           prompt == [by |-> "hybrid", documents |-> rag.response,
                      web |-> web.response, question |-> s.query]
       IN  Step(p, CASE o = "throw" -> StartLookup(s, "hyb_catch")
                     [] o = "nocontent" ->
                          Finish(s, [response |-> rag.response, sources |-> combined],
                                 L_hybrid)
                     [] OTHER ->
                          Finish(s, [response |-> Gen(prompt), sources |-> combined],
                                 L_hybrid))
  /\ UNCHANGED <<clock, ticks, cache, calls, rQuery, rChunks, rOut, store, chunker>>

\* ------------------------------------------------------------ processCSVQuery
\* the answer of lines 246-249
NoFileAsError == [response |-> Failure("csv_error", "nofile"), sources |-> <<>>]

NoFileAnswer == [response |-> Fixed("csv_no_file"), sources |-> <<>>]

\* lines 312-318: the catch of processCSVQuery, with the error's message
CsvCatch(message) == [response |-> Failure("csv_error", message), sources |-> <<>>]

\* lines 240-250: the most recent of the named files, or the fixed message;
\* a rejected findFirst is caught at line 312
CsvFind(p) ==
  /\ proc[p].pc = "csv_find"
  /\ \E ok \in ReadOutcomes :
       LET s == proc[p]
           file == FindFirstFile(FarmFiles, s.csvFileIds)
       IN  IF ~ok
           THEN Step(p, Finish([s EXCEPT !.csvFound = "rejected"], CsvCatch("store"),
                               L_csv_analysis))
           ELSE IF file = <<>>
           THEN Step(p, Finish([s EXCEPT !.csvFound = "null"], NoFileAnswer,
                               L_csv_analysis))
           ELSE Step(p, [s EXCEPT !.pc = "csv_exec", !.csvFile = file,
                                  !.csvFound = "row"])
  /\ UNCHANGED <<clock, ticks, cache, calls, rQuery, rChunks, rOut, store, chunker>>

\* What execAsync(`python3 -c "..."`) can do (lines 254-291):
\*   spawn    - the process cannot be started: the promise rejects
\*   exit     - python exits with an error status: the promise rejects
\*   pyerror  - the script's own `except Exception as e` prints "Error: ..."
\*              and python exits with status 0: the promise resolves
\*   stderr   - nothing on stdout, a text on stderr, status 0
\*   output   - the summary on stdout
ExecOutcomes == {"spawn", "exit", "pyerror", "stderr", "output"}

ExecRejects(o) == o \in {"spawn", "exit"}

\* line 291: stdout || stderr
AnalysisResult(o, file, query) ==
  CASE o = "pyerror" -> [kind |-> "error_text", file |-> file, question |-> query]
    [] o = "stderr" -> [kind |-> "stderr_text", file |-> file, question |-> query]
    [] OTHER -> [kind |-> "summary", file |-> file, question |-> query]

\* lines 287-291 and 312-318: the python process ends, or cannot be run
CsvExec(p) ==
  /\ proc[p].pc = "csv_exec"
  /\ \E o \in ExecOutcomes :
       LET s == [proc[p] EXCEPT !.exec = o, !.csvCalls = @ + 1]
       IN  Step(p, IF ExecRejects(o)
                   THEN Finish(s, CsvCatch(o), L_csv_analysis)
                   ELSE [s EXCEPT !.pc = "csv_complete",
                                  !.analysis = <<AnalysisResult(o, s.csvFile[1].id, s.query)>>])
  /\ UNCHANGED <<clock, ticks, cache, calls, rQuery, rChunks, rOut, store, chunker>>

\* lines 294-318: the completion that narrates the analysis
CsvComplete(p) ==
  /\ proc[p].pc = "csv_complete"
  /\ \E o \in CompletionOutcomes :
       LET s == [proc[p] EXCEPT !.csvCalls = @ + 1, !.completions = @ + 1]
           src == <<[fileName |-> s.csvFile[1].fileName, type |-> "CSV Analysis"]>>
           none == [response |-> [kind |-> "analysis", detail |-> s.analysis[1]],
                    sources |-> src]
           text == [response |-> Gen([by |-> "csv", analysis |-> s.analysis[1],
                                      question |-> s.query]),
                    sources |-> src]
       IN  Step(p, Finish(s, CASE o = "throw" -> CsvCatch("completion")
                               [] o = "nocontent" -> none
                               [] OTHER -> text,
                          L_csv_analysis))
  /\ UNCHANGED <<clock, ticks, cache, calls, rQuery, rChunks, rOut, store, chunker>>

\* ------------------------------------------------------------------- time
\* the clock is read one millisecond before and at each turn of the window
TickDelta(n) == IF n % 2 = 0 THEN Window - 1 ELSE 1

Tick ==
  /\ ticks < MaxTicks
  /\ clock' = clock + TickDelta(ticks)
  /\ ticks' = ticks + 1
  /\ UNCHANGED <<cache, proc, calls, rQuery, rChunks, rOut, store, chunker>>

\* a call of processWebSearch(zai, query) on its own (line 400), whatever
\* the path that makes it
Call(p) ==
  /\ proc[p].pc \in {"idle", "done"}
  /\ calls < MaxCalls
  /\ calls' = calls + 1
  /\ \E q \in Queries : Step(p, StartLookup([IdleProc EXCEPT !.query = q], "top"))
  /\ UNCHANGED <<clock, ticks, cache, rQuery, rChunks, rOut, store, chunker>>

\* processWebSearch, lines 400-491: each await resolves or rejects
Lookup(p) ==
  \/ WsFind(p) \/ WsCheck(p) \/ WsHit(p) \/ WsSearch(p) \/ WsWrite(p) \/ WsAnswer(p)
  \/ WsDbFails(p)

\* concurrent web lookups over the shared cache
Next ==
  \/ Tick
  \/ \E p \in Procs : Call(p) \/ Lookup(p)

Spec == Init /\ [][Next]_vars

\* the clock as one request sees it: an hour passes between two of its
\* steps (the turn of the window itself is what Tick is for)
Hour ==
  /\ ticks < MaxHours
  /\ clock' = clock + Window
  /\ ticks' = ticks + 1
  /\ UNCHANGED <<cache, proc, calls, rQuery, rChunks, rOut, store, chunker>>

\* one request through the route, from its body to its answer
Request(p) ==
  \/ Receive(p) \/ Post(p) \/ SaveUser(p) \/ SaveAssistant(p) \/ LogQuery(p) \/ Respond(p)
  \/ Start(p) \/ Analyze(p) \/ Chat(p)
  \/ RagFind(p) \/ RagComplete(p) \/ HybComplete(p)
  \/ CsvFind(p) \/ CsvExec(p) \/ CsvComplete(p)
  \/ Lookup(p)

NextRequest == Hour \/ CreateSession \/ Request(1)

SpecRequest == Init /\ [][NextRequest]_vars

\* ------------------------------------------------------ retrieval on its own
\* lines 344-372 of processRAGQuery over a fetched chunk list
RAlphabet == { "a", "B", " " }
RContents == { <<"a">>, <<"A", "b">>, <<"c">> }

Strings(alphabet, n) == UNION { [1..k -> alphabet] : k \in 1..n }

\* one more chunk row of the document, in the order findMany returns them
AddChunk ==
  /\ rOut = <<>>
  /\ Len(rChunks) < MaxChunks
  /\ \E c \in RContents :
       rChunks' = Append(rChunks, [documentId |-> "d1", chunkIndex |-> Len(rChunks),
                                   content |-> c, fileName |-> "manual.pdf"])
  /\ UNCHANGED <<clock, ticks, cache, proc, calls, rQuery, rOut, store, chunker>>

\* a query the endpoint accepts (line 65 refuses the empty message only)
Retrieve ==
  /\ rOut = <<>>
  /\ rChunks # <<>>
  /\ \E q \in Strings(RAlphabet, MaxQueryLen) :
       LET relevant == RelevantChunks(rChunks, q)
       IN  /\ rQuery' = q
           /\ rOut' = <<[relevant |-> relevant, sources |-> DocSources(relevant)]>>
  /\ UNCHANGED <<clock, ticks, cache, proc, calls, rChunks, store, chunker>>

NextRetrieval == AddChunk \/ Retrieve

SpecRetrieval == Init /\ [][NextRetrieval]_vars

\* ------------------------------------------------------- createTextChunks
Max(a, b) == IF a >= b THEN a ELSE b

\* String.prototype.slice(a, b), offsets from 0, negative ones from the end
JsSlice(s, a, b) ==
  LET from == IF a < 0 THEN Max(Len(s) + a, 0) ELSE Min(a, Len(s))
      to == IF b < 0 THEN Max(Len(s) + b, 0) ELSE Min(b, Len(s))
  IN  IF from >= to THEN <<>> ELSE SubSeq(s, from + 1, to)

\* String.prototype.lastIndexOf(c): the last offset of c, or -1
LastIndexOf(s, c) ==
  LET at == { i \in DOMAIN s : s[i] = c }
  IN  IF at = {} THEN -1 ELSE (CHOOSE i \in at : \A j \in at : j <= i) - 1

\* the texts and sizes createTextChunks is called with: short texts with
\* small sizes, and a text a little longer than a chunk with the sizes of
\* src/unnamed/part_006 line 102
TAlphabet == { "x", "." }

SmallTexts == { <<>> } \cup Strings(TAlphabet, MaxTextLen)

SmallSizes ==
  { [chunkSize |-> c, overlap |-> o] : c \in 1..MaxChunkSize, o \in 0..MaxChunkSize }

LongText == [i \in 1..(ChunkSize0 + Overlap0 + 1) |-> "x"]

ChunkCalls ==
  { [text |-> x, chunkSize |-> z.chunkSize, overlap |-> z.overlap] :
      x \in SmallTexts, z \in { y \in SmallSizes : y.chunkSize > y.overlap } }
  \cup { [text |-> LongText, chunkSize |-> ChunkSize0, overlap |-> Overlap0] }

\* part_006 lines 133-135: the call, chunks = [] and start = 0
ChunkCall ==
  /\ chunker.pc = "idle"
  /\ \E c \in ChunkCalls :
       chunker' = [NoChunker EXCEPT !.pc = "loop", !.text = c.text,
                                    !.chunkSize = c.chunkSize, !.overlap = c.overlap]
  /\ UNCHANGED <<clock, ticks, cache, proc, calls, rQuery, rChunks, rOut, store>>

\* part_006 line 158: chunks.filter(chunk => chunk.length > 50)
KeptChunks(chunks) == SelectSeq(chunks, LAMBDA chunk : Len(chunk) > MinChunkLen)

\* lines 138-150: the chunk of one pass, cut back to a sentence end
ChunkAt(text, start, chunkSize) ==
  LET end == Min(start + chunkSize, Len(text))
      chunk == JsSlice(text, start, end)
      breakPoint == Max(LastIndexOf(chunk, "."), LastIndexOf(chunk, "\n"))
  IN  IF end < Len(text) /\ 2 * breakPoint > chunkSize
      THEN JsSlice(chunk, 0, breakPoint + 1)
      ELSE chunk

\* lines 137-156: one pass of the while loop
ChunkLoop ==
  /\ chunker.pc = "loop"
  /\ chunker.start < Len(chunker.text)
  /\ chunker.iters < MaxIters
  /\ LET chunk == ChunkAt(chunker.text, chunker.start, chunker.chunkSize)
         chunks == Append(chunker.chunks, Trim(chunk))
         start == chunker.start + Len(chunk) - chunker.overlap
     IN  chunker' =
           IF start >= Len(chunker.text)
           THEN [chunker EXCEPT !.pc = "returned", !.start = start, !.chunks = chunks,
                                !.iters = @ + 1, !.result = <<KeptChunks(chunks)>>]
           ELSE [chunker EXCEPT !.start = start, !.chunks = chunks, !.iters = @ + 1]
  /\ UNCHANGED <<clock, ticks, cache, proc, calls, rQuery, rChunks, rOut, store>>

\* lines 137 and 158: the loop condition fails and the kept chunks are returned
ChunkReturn ==
  /\ chunker.pc = "loop"
  /\ chunker.start >= Len(chunker.text)
  /\ chunker' = [chunker EXCEPT !.pc = "returned",
                                 !.result = <<KeptChunks(chunker.chunks)>>]
  /\ UNCHANGED <<clock, ticks, cache, proc, calls, rQuery, rChunks, rOut, store>>

NextChunking == ChunkCall \/ ChunkLoop \/ ChunkReturn

SpecChunking == Init /\ [][NextChunking]_vars

\* ----------------------------------------------------- retrieval properties
\* the non-empty whitespace-delimited terms of the lowercased query
NonEmptyTerms(query) ==
  LET pieces == SplitWs(ToLowerCase(query))
  IN  { pieces[k] : k \in { j \in DOMAIN pieces : pieces[j] # <<>> } }

MatchesATerm(text, query) ==
  \E t \in NonEmptyTerms(query) : Includes(ToLowerCase(text), t)

\* C8: every document source returned refers to a chunk whose lowercased
\* text contains at least one non-empty term of the lowercased query.
C8_SourcesMatchATerm ==
  rOut # <<>> =>
    \A i \in DOMAIN rOut[1].sources :
       LET src == rOut[1].sources[i]
       IN  src.type = "Document" =>
             MatchesATerm(rChunks[src.chunkIndex + 1].content, rQuery)

\* C10: the kept chunks are in non-increasing score order, equal scores keep
\* the input order, min(5, number of positive scores) are kept, no dropped
\* chunk outscores a kept one, and the sources follow the kept chunks one to one.
C10_RankedTopFive ==
  rOut # <<>> =>
    LET kept == rOut[1].relevant
        sources == rOut[1].sources
        keywords == QueryKeywords(rQuery)
        score == [i \in DOMAIN rChunks |-> ScoreOf(rChunks[i].content, keywords)]
        positive == { i \in DOMAIN rChunks : score[i] > 0 }
        pos == [k \in DOMAIN kept |-> kept[k].chunk.chunkIndex + 1]
        five == 5
    IN  /\ \A k \in DOMAIN kept :
             /\ pos[k] \in positive
             /\ kept[k].chunk = rChunks[pos[k]]
             /\ kept[k].score = score[pos[k]]
        /\ \A j, k \in DOMAIN kept :
             j < k => /\ kept[j].score >= kept[k].score
                      /\ kept[j].score = kept[k].score => pos[j] < pos[k]
        /\ Len(kept) = Min(five, Cardinality(positive))
        /\ \A i \in DOMAIN rChunks :
             (\A k \in DOMAIN kept : pos[k] # i) =>
                \A k \in DOMAIN kept : score[i] <= kept[k].score
        /\ Len(sources) = Len(kept)
        /\ \A k \in DOMAIN kept :
             /\ sources[k].chunkIndex = kept[k].chunk.chunkIndex
             /\ sources[k].fileName = kept[k].chunk.fileName

\* six chunks score, with two scores among them: one of them is cut
C10_Witness ==
  /\ rOut # <<>>
  /\ Len(rOut[1].relevant) = 5
  /\ Cardinality({ i \in DOMAIN rChunks :
                     ScoreOf(rChunks[i].content, QueryKeywords(rQuery)) > 0 }) > 5
  /\ rOut[1].relevant[1].score > rOut[1].relevant[5].score
  /\ rOut[1].relevant[1].score = rOut[1].relevant[2].score

\* ------------------------------------------------------- request properties
\* C6: whatever the routing completion does, analyzeQueryType returns one of
\* the five strategy labels.
C6_TypeIsALabel ==
  \A p \in Procs : proc[p].type # <<>> => proc[p].type \in Labels

\* output that is not one of the five labels once trimmed and lowercased
Malformed(content) == ToLowerCase(Trim(content)) \notin Labels

\* C7: when the routing completion throws, has no choices or no content, or
\* returns malformed output, analyzeQueryType returns general and the request
\* goes on to a strategy path.
C7_FailureYieldsGeneral ==
  \A p \in Procs :
     proc[p].outcome # <<>> =>
       LET o == proc[p].outcome[1]
       IN  (\/ o.kind \in {"throw", "nochoices", "empty", "nocontent"}
            \/ o.kind = "text" /\ Malformed(o.content))
           => proc[p].type = L_general /\ proc[p].pc \notin {"idle", "pq_analyze"}

\* the chunks fetched for the request, and whether all of them score zero
Fetched(p) == FindManyChunks(ChunkTable, proc[p].documentIds)

AllScoreZero(p) ==
  \A i \in DOMAIN Fetched(p) :
     ScoreOf(Fetched(p)[i].content, QueryKeywords(proc[p].query)) = 0

\* C9: when no chunk is fetched or every fetched chunk scores zero,
\* processRAGQuery returns exactly the pair its call of processWebSearch
\* returned for the query.
C9_FallbackReturnsWebResult ==
  \A p \in Procs :
     (proc[p].ragRet # <<>> /\ (Fetched(p) = <<>> \/ AllScoreZero(p)))
       => /\ proc[p].ragWebRet # <<>>
          /\ proc[p].ragRet[1] = proc[p].ragWebRet[1]
          /\ proc[p].ragRet[1].response.kind # "rag_no_response"

\* chunks were fetched, none scored, and the web answer came back with sources
C9_Witness ==
  \E p \in Procs :
     /\ proc[p].ragRet # <<>>
     /\ Fetched(p) # <<>>
     /\ AllScoreZero(p)
     /\ proc[p].ragRet[1].sources # <<>>
     /\ proc[p].ragRet[1].response.kind = "generated"

\* --------------------------------------------------------- cache properties
RowsOf(table, query) == SelectSeq(table, LAMBDA row : row.query = query)

HourMs == 3600 * 1000

\* the request p took a step
Moved(p) == proc'[p] # proc[p]

\* C1: a lookup that finds an entry younger than 3600 seconds uses the list
\* stored in that entry, makes no search, and its counter update, once the
\* store has carried it out, adds exactly 1.
C1_FreshEntryIsReused ==
  [][\A p \in Procs :
       /\ (/\ proc[p].pc = "ws_check" /\ Moved(p)
           /\ proc[p].cached # <<>>
           /\ clock - proc[p].cached[1].searchedAt < HourMs)
          => /\ proc'[p].pc = "ws_hit"
             /\ proc'[p].searchResults = proc[p].cached[1].results.json
             /\ proc'[p].nsearch = 0
       /\ (proc[p].pc = "ws_hit" /\ proc'[p].pc = "ws_answer")
          => /\ RowsOf(cache, proc[p].query) # <<>>
             /\ Len(cache') = Len(cache)
             /\ \A i \in DOMAIN cache :
                  cache[i].query = proc[p].query
                    => cache'[i].hitCount = cache[i].hitCount + 1
             /\ proc'[p].nsearch = 0
             /\ proc'[p].searchResults = proc[p].searchResults
     ]_vars

\* a lookup has reused an entry and raised its counter
C1_Witness ==
  \E p \in Procs :
     /\ proc[p].pc = "ws_answer"
     /\ proc[p].fresh = "hit"
     /\ \E i \in DOMAIN cache :
          /\ cache[i].query = proc[p].query
          /\ cache[i].hitCount > DefaultHitCount
          /\ cache[i].results.json = proc[p].searchResults

\* C2: a lookup that finds no entry, or one of 3600 seconds or more, makes
\* exactly one search asking for 5 results, and its write-back, unless the
\* store itself fails, leaves the one
\* entry of the query with the new list, the time of the fetch and counter 1.
C2_MissWritesEntry ==
  [][\A p \in Procs :
       /\ (/\ proc[p].pc = "ws_check" /\ Moved(p)
           /\ (\/ proc[p].cached = <<>>
               \/ clock - proc[p].cached[1].searchedAt >= HourMs))
          => proc'[p].pc = "ws_search"
       /\ (/\ proc[p].pc = "ws_write" /\ Moved(p)
           /\ proc'[p].webRet # <<WebCatch("store")>>)
          => LET rows == RowsOf(cache', proc[p].query)
             IN  /\ proc[p].nsearch = 1
                 /\ proc[p].searchArgs[1].num = 5
                 /\ Len(rows) = 1
                 /\ rows[1].results.json = proc[p].searchResults
                 /\ rows[1].searchedAt \in {proc[p].stamp, clock}
                 /\ rows[1].hitCount = 1
     ]_vars

\* C3: a returning lookup answers from its own list, and returns an error
\* only when its own search or completion or the store itself failed,
\* whatever the interleaving.
C3_RaceIsBenign ==
  [][\A p \in Procs :
       (proc[p].pc \in {"ws_search", "ws_write", "ws_answer"} /\ proc'[p].pc = "done")
         => LET ret == proc'[p].webRet[1]
            IN  /\ ret.response.kind = "web_error"
                     => ret.response.detail[1] \in {"search", "completion", "store"}
                /\ ret.response.kind \in {"generated", "web_no_response"}
                     => ret.sources = WebSources(proc[p].searchResults)
                /\ ret.response.kind = "generated"
                     => ret.response.detail.context = WebContext(proc[p].searchResults)
     ]_vars

\* C4: the cache never holds two entries for one query string.
C4_OneEntryPerQuery ==
  \A i, j \in DOMAIN cache : cache[i].query = cache[j].query => i = j

\* both queries have an entry, and a second create for one of them was refused
C4_Witness ==
  /\ Len(cache) = 2
  /\ \E p \in Procs :
       /\ proc[p].webRet # <<>>
       /\ proc[p].webRet[1].response = Failure("web_error", "unique")

\* C5: an entry, and the copy of it a lookup holds, pairs a result list with
\* the timestamp written together with it.
C5_ListAndStampTogether ==
  /\ \A i \in DOMAIN cache : cache[i].resultsAt = cache[i].searchedAt
  /\ \A p \in Procs :
       proc[p].cached # <<>> => proc[p].cached[1].resultsAt = proc[p].cached[1].searchedAt

\* a lookup reuses a fresh entry that another lookup has refreshed in between
C5_Witness ==
  \E p, r \in Procs :
     /\ p # r
     /\ proc[p].pc = "ws_hit"
     /\ proc[r].query = proc[p].query
     /\ proc[r].pc = "ws_answer" /\ proc[r].fresh = "miss"
     /\ \E i \in DOMAIN cache :
          /\ cache[i].query = proc[p].query
          /\ cache[i].searchedAt >= HourMs
          /\ cache[i].results # proc[p].cached[1].results
          /\ proc[p].cached[1].searchedAt = 0

\* -------------------------------------------------------- hybrid properties
\* processQuery has just returned the hybrid path's value to the route
HybridReturned(p) ==
  /\ proc[p].pc = "post_assistant"
  /\ proc[p].pq[1].queryType = L_hybrid

HasPriority(src, priority) == "priority" \in DOMAIN src /\ src.priority = priority

SomeTagged(sources, priority) ==
  \E i \in DOMAIN sources : HasPriority(sources[i], priority)

\* C11: the source list a hybrid query returns has an entry tagged high
\* whenever the document path produced a source, and an entry tagged medium
\* whenever the web path produced a source, whatever the synthesis call did.
C11_HybridSourcesTagged ==
  \A p \in Procs :
     HybridReturned(p) =>
       LET out == proc[p].pq[1].sources
       IN  /\ proc[p].ragResult[1].sources # <<>> => SomeTagged(out, "high")
           /\ proc[p].webResult[1].sources # <<>> => SomeTagged(out, "medium")

\* C12: when the synthesis completion throws or returns no text, the hybrid
\* answer is the answer text of the document-retrieval path.
C12_SynthesisFailureKeepsRagAnswer ==
  \A p \in Procs :
     (HybridReturned(p) /\ proc[p].synth \in {"throw", "nocontent"})
       => proc[p].pq[1].response = proc[p].ragResult[1].response

\* the request was routed to the hybrid path
HybridDispatched(p) == proc[p].type # <<>> /\ Dispatch(proc[p].type) = L_hybrid

InTrace(p, step) == \E i \in DOMAIN proc[p].trace : proc[p].trace[i] = step

\* C13: in a hybrid request the document path and the web path both return
\* a value and the synthesis is reached: no failure inside a path reaches the
\* route, the web path starts only with the document path's value in hand,
\* and the request is never stuck before processQuery returns.
C13_BothPathsComplete ==
  \A p \in Procs :
     HybridDispatched(p) =>
       /\ proc[p].retrievals = 1
       /\ InTrace(p, "failed") => InTrace(p, "returned")
       /\ (\E i \in DOMAIN proc[p].stack : proc[p].stack[i] = "hyb_web")
             => proc[p].ragResult # <<>>
       /\ proc[p].pc = "hyb_complete"
             => proc[p].ragResult # <<>> /\ proc[p].webResult # <<>>
       /\ InTrace(p, "returned")
             => proc[p].synth # "none" /\ proc[p].lookups >= 1
       /\ HybridReturned(p)
             => proc[p].ragResult # <<>> /\ proc[p].webResult # <<>>
       /\ ~InTrace(p, "returned") => ENABLED Request(p)

\* the chunk read failed, both lookups' searches failed, and the synthesis
\* still ran over the two apologies
C13_Witness ==
  \E p \in Procs :
     /\ HybridReturned(p)
     /\ proc[p].ragFell = "error"
     /\ proc[p].ragResult[1].response = Failure("web_error", "search")
     /\ proc[p].webResult[1].response = Failure("web_error", "search")
     /\ proc[p].synth = "text"

\* --------------------------------------------------------- route properties
Answered(p) == proc[p].pc = "done" /\ proc[p].result # <<>>

\* what made the store reject, and what was wrong with the request's body
StoreCauses == {"persistence", "notfound"}
BodyCauses == {"json", "type"}

\* C14: a request whose body is well formed is answered 500 only because a
\* write or read of the store failed; a failure of the completion client, of
\* the search or of the python process never fails the request.
C14_OnlyPersistenceIsFatal ==
  \A p \in Procs :
     (Answered(p) /\ proc[p].result[1].status = 500)
       => proc[p].result[1].details \in StoreCauses \cup BodyCauses

\* C15: per request the classifier runs once, each of the document
\* retrieval, the web lookup and the tabular dispatch is entered at most
\* once, and nothing is entered again after the result was returned.
C15_ForwardOnly ==
  \A p \in Procs :
     /\ proc[p].classified <= 1
     /\ proc[p].retrievals <= 1
     /\ proc[p].lookups <= 1
     /\ proc[p].dispatches <= 1
     /\ InTrace(p, "returned") => proc[p].classified = 1 /\ proc[p].stack = <<>>

\* the steps of the route in the order of lines 72-121
RouteOrder == <<"user", "invoked", "returned", "assistant", "log", "touch">>

IsPrefix(a, b) == Len(a) <= Len(b) /\ a = SubSeq(b, 1, Len(a))

RowsByRole(role) == SelectSeq(store.messages, LAMBDA row : row.role = role)

\* C16: the user turn is saved before processQuery is called, the assistant
\* turn (text, serialized sources, label, elapsed time) after it returned,
\* the analytics row after the assistant turn, the session update after the
\* analytics row; each happens at most once, and a failure ends the request
\* with one 500 answer and no further step.
C16_RouteSequence ==
  \A p \in { r \in Procs : proc[r].pc # "idle" } :
     LET tr == proc[p].trace
         failed == tr # <<>> /\ tr[Len(tr)] = "failed"
         steps == IF failed THEN SubSeq(tr, 1, Len(tr) - 1) ELSE tr
         did == { steps[i] : i \in DOMAIN steps }
     IN  /\ IsPrefix(steps, RouteOrder)
         /\ failed <=> (Answered(p) /\ proc[p].result[1].status = 500)
         /\ (Answered(p) /\ proc[p].result[1].status = 200) <=> tr = RouteOrder
         /\ (Answered(p) /\ proc[p].result[1].status = 400)
               => tr = <<>> /\ store.messages = <<>>
         /\ Len(RowsByRole("user")) = (IF "user" \in did THEN 1 ELSE 0)
         /\ Len(RowsByRole("assistant")) = (IF "assistant" \in did THEN 1 ELSE 0)
         /\ Len(store.logs) = (IF "log" \in did THEN 1 ELSE 0)
         /\ \A i \in DOMAIN store.sessions :
              LET row == store.sessions[i]
              IN  IF row.id = proc[p].sessionId /\ "touch" \in did
                  THEN row.title = Title(proc[p].query)
                  ELSE row.title = NewTitle
         /\ "assistant" \in did =>
               LET row == RowsByRole("assistant")[1]
                   r == proc[p].pq[1]
               IN  /\ store.messages[1].role = "user"
                   /\ row.content = r.response
                   /\ row.sources = JSONstringify(r.sources)
                   /\ row.queryType = r.queryType
                   /\ row.responseTime.ms >= 0
                   /\ row.responseTime.ms = proc[p].elapsed
                   /\ row.responseTime.ms <= clock - proc[p].startTime

\* a request went through all the steps, and its turn took measurable time
C16_Witness ==
  \E p \in Procs :
     /\ Answered(p)
     /\ proc[p].result[1].status = 200
     /\ proc[p].trace = RouteOrder
     /\ Len(store.messages) = 2
     /\ store.messages[2].responseTime.ms > 0
     /\ Len(store.logs) = 1
     /\ store.sessions[1].title = proc[p].query

\* C17: the analytics row's triggeredWebSearch is true exactly when
\* processWebSearch was called while the request was answered.
C17_FlagMatchesLookups ==
  \A p \in Procs :
     (InTrace(p, "log") /\ store.logs # <<>>)
       => (store.logs[Len(store.logs)].triggeredWebSearch <=> proc[p].lookups > 0)

\* ------------------------------------------------------- tabular properties
\* processQuery has just returned the tabular path's value to the route
CsvReturned(p) ==
  /\ proc[p].pc = "post_assistant"
  /\ proc[p].pq[1].queryType = L_csv_analysis

Resolved(ids) ==
  { j \in DOMAIN FarmFiles : \E i \in DOMAIN ids : ids[i] = FarmFiles[j].id }

Reverse(s) == [i \in DOMAIN s |-> s[Len(s) + 1 - i]]

\* C18: the file processCSVQuery selects is the one of the resolving
\* identifiers that was registered last, in whatever order the identifiers
\* are listed, and the source of the answer names it.
C18_LatestFileSelected ==
  \A p \in Procs :
     /\ proc[p].csvFile # <<>> =>
           LET file == proc[p].csvFile[1]
               ids == proc[p].csvFileIds
           IN  /\ \E j \in Resolved(ids) : FarmFiles[j] = file
               /\ \A j \in Resolved(ids) : FarmFiles[j].uploadedAt <= file.uploadedAt
               /\ FindFirstFile(FarmFiles, Reverse(ids)) = <<file>>
     /\ (CsvReturned(p) /\ proc[p].pq[1].sources # <<>>) =>
           /\ Len(proc[p].pq[1].sources) = 1
           /\ proc[p].pq[1].sources[1].fileName = proc[p].csvFile[1].fileName

\* [A, B] with B registered later than A: B is selected and named
C18_Witness ==
  \E p \in Procs :
     /\ CsvReturned(p)
     /\ proc[p].csvFileIds = <<"f1", "f2">>
     /\ proc[p].csvFile # <<>>
     /\ proc[p].csvFile[1].id = "f2"
     /\ Len(proc[p].pq[1].sources) = 1
     /\ proc[p].pq[1].sources = <<[fileName |-> "milk.csv", type |-> "CSV Analysis"]>>

\* the python process could not be started, ended with an error status, or
\* failed while it analysed the file
ExecFailed(o) == o \in {"spawn", "exit", "pyerror"}

\* C19: after any failure of the python process the tabular path returns
\* the message that embeds the failure, with no sources.
C19_ExecFailureIsReported ==
  \A p \in Procs :
     (CsvReturned(p) /\ ExecFailed(proc[p].exec))
       => /\ proc[p].pq[1].response = Failure("csv_error", proc[p].exec)
          /\ proc[p].pq[1].sources = <<>>

\* C20: when the findFirst resolves and no identifier names a registered
\* file, the tabular path returns the fixed upload message with no sources
\* and has called neither the python process nor a completion.
C20_NoFileFixedMessage ==
  \A p \in Procs :
     (CsvReturned(p) /\ Resolved(proc[p].csvFileIds) = {}
        /\ proc[p].csvFound # "rejected")
       => /\ proc[p].pq[1].response = Fixed("csv_no_file")
          /\ proc[p].pq[1].sources = <<>>
          /\ proc[p].csvCalls = 0
          /\ proc[p].exec = "none"
          /\ ~InTrace(p, "failed")

\* an identifier that names no registered file
C20_Witness ==
  \E p \in Procs :
     /\ CsvReturned(p)
     /\ proc[p].csvFileIds = <<"x">>
     /\ proc[p].csvFound = "null"
     /\ proc[p].pq[1].response = Fixed("csv_no_file")

\* --------------------------------------------------- more cache properties
EmptyAnswer == [response |-> Fixed("web_no_results"), sources |-> <<>>]

\* C21: a lookup that returns with an empty result list in hand, parsed from
\* a reused entry or returned by its own search, returns the fixed apology
\* with no sources and has called no completion (an answer the store caused
\* by failing for a reason of its own is left aside).
C21_EmptyListFixedApology ==
  [][\A p \in Procs :
       (/\ proc[p].pc \in {"ws_hit", "ws_write", "ws_answer"}
        /\ proc'[p].pc = "done"
        /\ proc[p].searchResults = <<>>
        /\ proc'[p].webRet # <<WebCatch("store")>>)
         => /\ proc'[p].webRet = <<EmptyAnswer>>
            /\ proc'[p].completions = proc[p].completions
     ]_vars

\* C22: a lookup whose search fails returns the error text with no sources,
\* and no step it took has written the cache.
C22_SearchFailureKeepsCache ==
  [][\A p \in Procs :
       /\ (proc[p].pc \in {"ws_find", "ws_check", "ws_search"} /\ Moved(p))
            => cache' = cache
       /\ (proc[p].pc = "ws_search" /\ proc'[p].pc = "done")
            => /\ proc'[p].webRet[1].response = Failure("web_error", "search")
               /\ proc'[p].webRet[1].sources = <<>>
     ]_vars

\* a search failed over an entry that is an hour old and still as created
C22_Witness ==
  \E p \in Procs :
     /\ proc[p].pc = "done"
     /\ proc[p].webRet = <<WebCatch("search")>>
     /\ clock >= HourMs
     /\ \E i \in DOMAIN cache :
          /\ cache[i].query = proc[p].query
          /\ cache[i].searchedAt = 0
          /\ cache[i].hitCount = DefaultHitCount
          /\ cache[i].results.json # <<>>

\* C23: the update of a reused entry changes its hit counter and nothing
\* else: its list and timestamp stay, the other entries stay, and the lookup
\* makes no search.
C23_HitChangesCounterOnly ==
  [][\A p \in Procs :
       /\ (proc[p].pc = "ws_check" /\ proc'[p].pc = "ws_hit")
            => cache' = cache /\ proc'[p].nsearch = 0
       /\ (proc[p].pc = "ws_hit" /\ Moved(p))
            => /\ proc'[p].nsearch = 0
               /\ DOMAIN cache' = DOMAIN cache
               /\ \A i \in DOMAIN cache :
                    IF cache[i].query = proc[p].query
                    THEN cache'[i] = [cache[i] EXCEPT !.hitCount = cache'[i].hitCount]
                    ELSE cache'[i] = cache[i]
     ]_vars

\* an entry was reused while the other query has an entry of its own
C23_Witness ==
  \E p \in Procs :
     /\ proc[p].pc = "ws_answer"
     /\ proc[p].fresh = "hit"
     /\ proc[p].nsearch = 0
     /\ Len(cache) = 2
     /\ \E i, j \in DOMAIN cache :
          /\ cache[i].query = proc[p].query /\ cache[i].hitCount = DefaultHitCount + 1
          /\ cache[j].query # proc[p].query /\ cache[j].hitCount = DefaultHitCount

\* ------------------------------------------------- more retrieval properties
\* the terms of the query: the non-empty pieces between its whitespace runs
TermsOf(query) ==
  SelectSeq(SplitWs(ToLowerCase(query)), LAMBDA piece : piece # <<>>)

RECURSIVE CountTerms(_, _)
CountTerms(terms, content) ==
  IF terms = <<>> THEN 0
  ELSE (IF Includes(content, Head(terms)) THEN 1 ELSE 0)
       + CountTerms(Tail(terms), content)

\* C25: a chunk's score is the number of the query's terms that occur in its
\* lowercased text, an integer between 0 and the number of terms.
C25_ScoreCountsTerms ==
  rOut # <<>> =>
    \A k \in DOMAIN rOut[1].relevant :
       LET kept == rOut[1].relevant[k]
           terms == TermsOf(rQuery)
       IN  /\ kept.score = CountTerms(terms, ToLowerCase(kept.chunk.content))
           /\ kept.score >= 0
           /\ kept.score <= Len(terms)

\* ----------------------------------------------------- more path properties
\* the rows of the named documents, all of them
StoredChunks(documentIds) ==
  SelectSeq(ChunkTable,
            LAMBDA row : \E i \in DOMAIN documentIds : documentIds[i] = row.documentId)

SomeStoredScores(p) ==
  \E i \in DOMAIN StoredChunks(proc[p].documentIds) :
     ScoreOf(StoredChunks(proc[p].documentIds)[i].content,
             QueryKeywords(proc[p].query)) > 0

\* C28: when a stored chunk of the named documents scores above zero and no
\* read or completion of the path failed, processRAGQuery returns document
\* sources and has not gone to the web.
C28_WebOnlyWhenNothingScores ==
  \A p \in Procs :
     (proc[p].ragRet # <<>> /\ proc[p].ragFell # "error" /\ SomeStoredScores(p))
       => /\ proc[p].ragFell = "none"
          /\ proc[p].ragRet[1].sources # <<>>
          /\ \A i \in DOMAIN proc[p].ragRet[1].sources :
               proc[p].ragRet[1].sources[i].type = "Document"

SpecificLabels == {L_csv_analysis, L_rag, L_web_search, L_hybrid}

\* the path functions the request has entered
Entered(p) ==
  [csv |-> proc[p].dispatches, rag |-> proc[p].retrievals,
   chat |-> proc[p].chats, hybrid |-> proc[p].synth # "none"]

\* C26: the label processQuery returns is one of the five, names the path
\* that ran, is the label saved on the assistant turn, in the analytics row
\* and in the answer; a classifier output that is none of the four specific
\* labels runs directChat and is reported as general.
C26_LabelNamesThePath ==
  \A p \in Procs :
     /\ proc[p].pq # <<>> =>
          LET label == proc[p].pq[1].queryType
              e == Entered(p)
          IN  /\ label \in Labels
              /\ label = L_csv_analysis =>
                    /\ proc[p].type = L_csv_analysis
                    /\ e = [csv |-> 1, rag |-> 0, chat |-> 0, hybrid |-> FALSE]
                    /\ proc[p].lookups = 0
              /\ label = L_rag =>
                    /\ proc[p].type = L_rag
                    /\ e = [csv |-> 0, rag |-> 1, chat |-> 0, hybrid |-> FALSE]
              /\ label = L_web_search =>
                    /\ proc[p].type = L_web_search
                    /\ e = [csv |-> 0, rag |-> 0, chat |-> 0, hybrid |-> FALSE]
                    /\ proc[p].lookups = 1
              /\ label = L_hybrid =>
                    /\ proc[p].type = L_hybrid
                    /\ e.csv = 0 /\ e.rag = 1 /\ e.chat = 0
                    /\ e.hybrid
              /\ label = L_general =>
                    /\ proc[p].type \notin SpecificLabels
                    /\ e = [csv |-> 0, rag |-> 0, chat |-> 1, hybrid |-> FALSE]
                    /\ proc[p].lookups = 0
              /\ \A i \in DOMAIN store.messages :
                    store.messages[i].role = "assistant"
                      => store.messages[i].queryType = label
              /\ \A i \in DOMAIN store.logs : store.logs[i].queryType = label
              /\ (Answered(p) /\ proc[p].result[1].status = 200)
                    => proc[p].result[1].queryType = label
     /\ (proc[p].type # <<>> /\ proc[p].type \notin SpecificLabels) =>
          /\ proc[p].dispatches = 0 /\ proc[p].retrievals = 0 /\ proc[p].lookups = 0
          /\ proc[p].pc = "chat" \/ proc[p].chats = 1

\* the classifier said "rag.": the request was answered by directChat and
\* saved, logged and answered as general
C26_Witness ==
  \E p \in Procs :
     /\ Answered(p)
     /\ proc[p].result[1].status = 200
     /\ proc[p].type = <<"r", "a", "g", ".">>
     /\ proc[p].result[1].queryType = L_general
     /\ store.logs[1].queryType = L_general
     /\ store.messages[2].queryType = L_general
     /\ proc[p].chats = 1

\* where a returned source came from
Origin(src) == IF "priority" \in DOMAIN src THEN src.source.type ELSE src.type

Untagged(src) == IF "priority" \in DOMAIN src THEN src.source ELSE src

\* C27: in a hybrid result every source tagged high is a document source,
\* every web source is tagged medium, and no source is listed under two
\* priorities.
C27_PrioritiesFollowOrigin ==
  \A p \in Procs :
     HybridReturned(p) =>
       LET out == proc[p].pq[1].sources
       IN  /\ \A i \in DOMAIN out :
                /\ HasPriority(out[i], "high") => Origin(out[i]) = "Document"
                /\ Origin(out[i]) = "Web Search" => HasPriority(out[i], "medium")
           /\ \A i, j \in DOMAIN out :
                (Untagged(out[i]) = Untagged(out[j])
                   /\ "priority" \in DOMAIN out[i] /\ "priority" \in DOMAIN out[j])
                  => out[i].priority = out[j].priority

\* C30: for a tabular request in which a file was selected, the csvFile of
\* the analytics row is the id of the selected file.
C30_LoggedFileIsSelected ==
  \A p \in Procs :
     (/\ InTrace(p, "log") /\ store.logs # <<>>
      /\ proc[p].pq[1].queryType = L_csv_analysis
      /\ proc[p].csvFound = "row")
       => store.logs[Len(store.logs)].csvFile
            = <<FindFirstFile(FarmFiles, proc[p].csvFileIds)[1].id>>

\* ------------------------------------------------------ chunking properties
\* C29: for a non-empty text and chunkSize > overlap, every pass of the loop
\* of createTextChunks moves start forward, so the loop ends.
C29_StartAlwaysAdvances ==
  [][(/\ chunker.pc = "loop"
      /\ chunker'.iters = chunker.iters + 1
      /\ chunker.text # <<>>
      /\ chunker.chunkSize > chunker.overlap)
       => chunker'.start > chunker.start
    ]_vars

====
